---- MODULE Spec2Model ----
(***************************************************************************)
(* Model of app_short.py: the EPUB-to-audio pipeline built on ZipVoice.    *)
(*                                                                         *)
(*   ChunkSpec  chunk_text(text, chunk_size), one step per loop iteration, *)
(*              over every text up to MaxLen characters.                   *)
(*   Spec       main(): the per-chunk synthesis loop, then                 *)
(*              merge_wav_files, one step per subprocess call and per      *)
(*              file merged.                                               *)
(*   FairSpec   Spec with weak fairness on the program's next step.        *)
(*                                                                         *)
(* A string is a sequence of one-character strings.                        *)
(***************************************************************************)
EXTENDS Integers, Sequences, FiniteSets, TLC

\* ------------------------------------------------------------- bounds
MaxLen == 7
MaxChunkSize == 4
MaxChunks == 3
MaxFrames == 2
MaxPauseMs == 6

\* -------------------------------------------------- program constants
PAUSE_BETWEEN_CHUNKS_MS == 1000

\* ------------------------------------------------------- strings, regex
Chars == {"a", "b", ".", " "}

\* [.!?] of the sentence_endings pattern
IsEnding(c) == c \in {".", "!", "?"}

\* \s of the pattern, and what str.strip() removes
IsSpace(c) == c \in {" ", "\t", "\n"}

Texts == UNION {[1..n -> Chars] : n \in 0..MaxLen}

RECURSIVE SpaceRunEnd(_, _)
\* last index of the whitespace run of t that starts at i (greedy \s+)
SpaceRunEnd(t, i) ==
    IF i + 1 <= Len(t) /\ IsSpace(t[i + 1]) THEN SpaceRunEnd(t, i + 1) ELSE i

RECURSIVE SplitFrom(_, _, _)
\* re.split scanning t at i, the piece under construction starting at start
SplitFrom(t, start, i) ==
    IF i > Len(t) THEN <<SubSeq(t, start, Len(t))>>
    ELSE IF IsEnding(t[i]) /\ i + 1 <= Len(t) /\ IsSpace(t[i + 1])
         THEN LET j == SpaceRunEnd(t, i + 1)
              IN  <<SubSeq(t, start, i - 1)>> \o SplitFrom(t, j + 1, j + 1)
         ELSE SplitFrom(t, start, i + 1)

\* re.split(r'[.!?]\s+', text): the matched delimiters are not returned
ReSplit(t) == SplitFrom(t, 1, 1)

RECURSIVE LStrip(_)
LStrip(s) == IF s # <<>> /\ IsSpace(Head(s)) THEN LStrip(Tail(s)) ELSE s

RECURSIVE RStrip(_)
RStrip(s) ==
    IF s # <<>> /\ IsSpace(s[Len(s)]) THEN RStrip(SubSeq(s, 1, Len(s) - 1)) ELSE s

\* str.strip()
Strip(s) == RStrip(LStrip(s))

RECURSIVE Join(_)
\* ' '.join(parts)
Join(parts) ==
    IF parts = <<>> THEN <<>>
    ELSE IF Len(parts) = 1 THEN parts[1]
    ELSE parts[1] \o <<" ">> \o Join(Tail(parts))

\* ------------------------------------------------------------ chunk_text
\* text, chunk_size   the arguments
\* sentences, chunks, current_chunk, current_length   the locals
\* sidx    the position of the for loop in sentences
\* heads   for each chunk appended, the first sentence that went into it
\* cpc     "split", "loop", "done" (returned)
VARIABLES text, chunk_size, sentences, sidx, chunks, current_chunk,
          current_length, heads, cpc

cvars == <<text, chunk_size, sentences, sidx, chunks, current_chunk,
           current_length, heads, cpc>>

\* ------------------------------------------- main and merge_wav_files
\* i             the loop variable of main (chunk numbers start at 1)
\* pc            where main is: "loop", "running" (inside subprocess.run),
\*               "merging", "done" (main returned), "crashed" (an exception
\*               left main), "idle" (ChunkSpec only)
\* worker_returns whether the child process of the current call ever exits
\* audio_files   the chunk numbers whose output paths main collected
\* artifacts     what each chunk's output path holds in OUTPUT_DIR
\* status, attempt_count, failure   per-chunk record of what main did
\* output        the file at FINAL_OUTPUT
\* params, mi, pause   locals of merge_wav_files
\* merge_called  whether main called merge_wav_files
\* error         the exception that left main, "none" if none
\* report        the closing message main printed
\* exit_status   -1 while running, then the process exit status
VARIABLES i, pc, worker_returns, audio_files, artifacts, status,
          attempt_count, failure, output, params, mi, pause, merge_called,
          error, report, exit_status

pvars == <<i, pc, worker_returns, audio_files, artifacts, status,
           attempt_count, failure, output, params, mi, pause, merge_called,
           error, report, exit_status>>

vars == <<cvars, pvars>>

NoParams == [framerate |-> 0, nchannels |-> 0, sampwidth |-> 0]
NoFile == [exists |-> FALSE, params |-> NoParams, blocks |-> <<>>]

PipeIdle ==
    /\ i = 0
    /\ pc = "idle"
    /\ worker_returns = FALSE
    /\ audio_files = <<>>
    /\ artifacts = <<>>
    /\ status = <<>>
    /\ attempt_count = <<>>
    /\ failure = <<>>
    /\ output = NoFile
    /\ params = NoParams
    /\ mi = 0
    /\ pause = 0
    /\ merge_called = FALSE
    /\ error = "none"
    /\ report = "none"
    /\ exit_status = -1

ChunkInit ==
    /\ PipeIdle
    /\ text \in Texts
    /\ chunk_size \in 1..MaxChunkSize
    /\ sentences = <<>>
    /\ sidx = 0
    /\ chunks = <<>>
    /\ current_chunk = <<>>
    /\ current_length = 0
    /\ heads = <<>>
    /\ cpc = "split"

\* sentences = re.split(sentence_endings, text)
SplitSentences ==
    /\ cpc = "split"
    /\ sentences' = ReSplit(text)
    /\ sidx' = 1
    /\ cpc' = "loop"
    /\ UNCHANGED <<text, chunk_size, chunks, current_chunk, current_length, heads>>
    /\ UNCHANGED pvars

\* if not sentence: continue
SkipEmpty ==
    /\ cpc = "loop"
    /\ sidx <= Len(sentences)
    /\ Strip(sentences[sidx]) = <<>>
    /\ sidx' = sidx + 1
    /\ UNCHANGED <<text, chunk_size, sentences, chunks, current_chunk,
                   current_length, heads, cpc>>
    /\ UNCHANGED pvars

\* ExceedsChunkSize closing a chunk one character early
ExceedsChunkSizeEarly(cur_len, sentence_length, size) ==
    cur_len > 0 /\ cur_len + sentence_length >= size

\* the test that closes the current chunk before a sentence is added
ExceedsChunkSize(cur_len, sentence_length, size) ==
    cur_len > 0 /\ cur_len + sentence_length > size

\* LengthAdded forgetting the joining space
LengthAddedNoSpace(sentence_length) == sentence_length

\* what a sentence adds to current_length: itself and its joining space
LengthAdded(sentence_length) == sentence_length + 1

\* one iteration of the loop on a non-empty sentence
AddSentence ==
    /\ cpc = "loop"
    /\ sidx <= Len(sentences)
    /\ LET sentence == Strip(sentences[sidx])
           sentence_length == Len(sentence)
           flush == ExceedsChunkSize(current_length, sentence_length, chunk_size)
       IN  /\ sentence # <<>>
           /\ chunks' = IF flush THEN Append(chunks, Join(current_chunk)) ELSE chunks
           /\ heads' = IF flush THEN Append(heads, current_chunk[1]) ELSE heads
           /\ current_chunk' = Append(IF flush THEN <<>> ELSE current_chunk, sentence)
           /\ current_length' =
                (IF flush THEN 0 ELSE current_length) + LengthAdded(sentence_length)
    /\ sidx' = sidx + 1
    /\ UNCHANGED <<text, chunk_size, sentences, cpc>>
    /\ UNCHANGED pvars

\* if current_chunk: chunks.append(' '.join(current_chunk)); return chunks
AppendLast ==
    /\ cpc = "loop"
    /\ sidx > Len(sentences)
    /\ chunks' = IF current_chunk # <<>>
                 THEN Append(chunks, Join(current_chunk)) ELSE chunks
    /\ heads' = IF current_chunk # <<>>
                THEN Append(heads, current_chunk[1]) ELSE heads
    /\ cpc' = "done"
    /\ UNCHANGED <<text, chunk_size, sentences, sidx, current_chunk, current_length>>
    /\ UNCHANGED pvars

ChunkNext == SplitSentences \/ SkipEmpty \/ AddSentence \/ AppendLast

ChunkSpec == ChunkInit /\ [][ChunkNext]_vars

\* --------------------------------------------------------------- main
\* len(chunks)
N == Len(chunks)

\* the audio formats a synthesized WAV file may have
Formats ==
    { [framerate |-> 22050, nchannels |-> 1, sampwidth |-> 2],
      [framerate |-> 44100, nchannels |-> 1, sampwidth |-> 2],
      [framerate |-> 22050, nchannels |-> 2, sampwidth |-> 2],
      [framerate |-> 22050, nchannels |-> 1, sampwidth |-> 1] }

NoArtifact == [kind |-> "none", params |-> NoParams, nframes |-> 0]

\* what a worker that exits with status 0 may leave at --res-wav-path:
\* a WAV file, or something the wave module cannot decode
WrittenArtifacts ==
    { [kind |-> "wav", params |-> f, nframes |-> n] :
          f \in Formats, n \in 1..MaxFrames }
    \cup { [kind |-> "malformed", params |-> NoParams, nframes |-> 0] }

\* the pause lengths merge_wav_files is called with
Pauses == (0..MaxPauseMs) \cup {PAUSE_BETWEEN_CHUNKS_MS}

\* the text used for a run of n chunks: n one-letter sentences
TextOf(n) == Join([k \in 1..n |-> <<"a", ".">>])

\* the state in which chunk_text(TextOf(n), 1) returns, for n in 0..MaxChunks
Init ==
    /\ \E n \in 0..MaxChunks :
          /\ text = TextOf(n)
          /\ sentences = ReSplit(TextOf(n))
          /\ chunks = IF n = 0 THEN <<>> ELSE ReSplit(TextOf(n))
          /\ heads = chunks
          /\ current_chunk = IF n = 0 THEN <<>> ELSE <<chunks[n]>>
          /\ current_length = IF n = 0 THEN 0 ELSE Len(chunks[n]) + 1
          /\ artifacts = [k \in 1..n |-> NoArtifact]
          /\ status = [k \in 1..n |-> "Pending"]
          /\ attempt_count = [k \in 1..n |-> 0]
          /\ failure = [k \in 1..n |-> "none"]
    /\ chunk_size = 1
    /\ sidx = Len(sentences) + 1
    /\ cpc = "done"
    /\ i = 1
    /\ pc = "loop"
    /\ worker_returns = FALSE
    /\ audio_files = <<>>
    /\ output = NoFile
    /\ params = NoParams
    /\ mi = 0
    /\ pause = 0
    /\ merge_called = FALSE
    /\ error = "none"
    /\ report = "none"
    /\ exit_status = -1

\* an exception nothing catches leaves main: traceback, exit status 1
Uncaught(exc) ==
    /\ error' = exc
    /\ report' = "traceback"
    /\ exit_status' = 1
    /\ pc' = "crashed"

\* NextChunk staying on the chunk, which dispatches it again
SameChunk(k) == k

\* the for loop of main moves to the next chunk whatever the result was
NextChunk(k) == k + 1

\* AppendFile putting the newest file first
PrependFile(files, k) == <<k>> \o files

\* audio_files.append(output_file)
AppendFile(files, k) == Append(files, k)

\* generate_audio_chunk(chunk, output_file, i) reaches subprocess.run, which
\* is given no timeout: whether it ever gives control back is the worker's
Dispatch ==
    /\ pc = "loop"
    /\ i <= N
    /\ status' = [status EXCEPT ![i] = "Dispatched"]
    /\ attempt_count' = [attempt_count EXCEPT ![i] = @ + 1]
    /\ worker_returns' \in BOOLEAN
    /\ pc' = "running"
    /\ UNCHANGED <<i, audio_files, artifacts, failure, output, params, mi,
                   pause, merge_called, error, report, exit_status>>
    /\ UNCHANGED cvars

\* exit status 0: generate_audio_chunk returns True, whatever was written
WorkerExitsZero ==
    /\ pc = "running"
    /\ worker_returns
    /\ \E art \in WrittenArtifacts : artifacts' = [artifacts EXCEPT ![i] = art]
    /\ audio_files' = AppendFile(audio_files, i)
    /\ status' = [status EXCEPT ![i] = "Succeeded"]
    /\ i' = NextChunk(i)
    /\ pc' = "loop"
    /\ UNCHANGED <<worker_returns, attempt_count, failure, output, params, mi,
                   pause, merge_called, error, report, exit_status>>
    /\ UNCHANGED cvars

\* non-zero exit status: CalledProcessError is caught, the function returns
\* False and main skips the chunk. The cause may be one a second attempt
\* would get past (Transient) or not (Permanent); the handler does not look
WorkerExitsNonZero ==
    /\ pc = "running"
    /\ worker_returns
    /\ \E kind \in {"Transient", "Permanent"} :
          failure' = [failure EXCEPT ![i] = kind]
    /\ status' = [status EXCEPT ![i] = "FailedPermanent"]
    /\ i' = NextChunk(i)
    /\ pc' = "loop"
    /\ UNCHANGED <<worker_returns, audio_files, artifacts, attempt_count, output,
                   params, mi, pause, merge_called, error, report, exit_status>>
    /\ UNCHANGED cvars

\* the child cannot be started: subprocess.run raises OSError, which the
\* except clause (CalledProcessError only) does not catch
WorkerCannotStart ==
    /\ pc = "running"
    /\ worker_returns
    /\ Uncaught("OSError")
    /\ UNCHANGED <<i, worker_returns, audio_files, artifacts, status,
                   attempt_count, failure, output, params, mi, pause,
                   merge_called>>
    /\ UNCHANGED cvars

\* HasAudio without the test: merge_wav_files is always called
AlwaysMerge(files) == TRUE

\* if audio_files:
HasAudio(files) == files # <<>>

\* else: print("No audio files were generated successfully"); main returns
NoAudio ==
    /\ pc = "loop"
    /\ i > N
    /\ ~HasAudio(audio_files)
    /\ report' = "no_audio"
    /\ exit_status' = 0
    /\ pc' = "done"
    /\ UNCHANGED <<i, worker_returns, audio_files, artifacts, status,
                   attempt_count, failure, output, params, mi, pause,
                   merge_called, error>>
    /\ UNCHANGED cvars

\* ---------------------------------------------------- merge_wav_files
\* add_silence: the length in bytes of the silence it returns
add_silence(duration_ms, sample_rate, channels, sampwidth) ==
    LET num_frames == (sample_rate * duration_ms) \div 1000
    IN  num_frames * channels * sampwidth

\* PauseAfter without the exception for the last file
PauseAfterEvery(m, n) == m <= n

\* whether file number m of n is followed by a pause
PauseAfter(m, n) == m < n

\* merge_wav_files is called: the first file gives the parameters and the
\* output file is created with them
MergeBegin ==
    /\ pc = "loop"
    /\ i > N
    /\ HasAudio(audio_files)
    /\ merge_called' = TRUE
    /\ \E p \in Pauses : pause' = p
    /\ IF audio_files = <<>>
       THEN Uncaught("IndexError") /\ UNCHANGED <<output, params, mi>>
       ELSE IF artifacts[audio_files[1]].kind # "wav"
       THEN Uncaught("wave.Error") /\ UNCHANGED <<output, params, mi>>
       ELSE /\ params' = artifacts[audio_files[1]].params
            /\ output' = [exists |-> TRUE, params |-> params', blocks |-> <<>>]
            /\ mi' = 1
            /\ pc' = "merging"
            /\ UNCHANGED <<error, report, exit_status>>
    /\ UNCHANGED <<i, worker_returns, audio_files, artifacts, status,
                   attempt_count, failure>>
    /\ UNCHANGED cvars

\* one iteration of the loop over wav_files: the file's frames are written
\* as read, then the silence unless the file is the last one
MergeFile ==
    /\ pc = "merging"
    /\ mi <= Len(audio_files)
    /\ LET art == artifacts[audio_files[mi]]
           frames == [chunk |-> audio_files[mi],
                      nbytes |-> art.nframes * art.params.nchannels
                                   * art.params.sampwidth]
           silence == [chunk |-> 0,
                       nbytes |-> add_silence(pause, params.framerate,
                                              params.nchannels, params.sampwidth)]
       IN  IF art.kind # "wav"
           THEN Uncaught("wave.Error") /\ UNCHANGED <<output, mi>>
           ELSE /\ output' = [output EXCEPT !.blocks =
                     @ \o <<frames>> \o
                     (IF PauseAfter(mi, Len(audio_files)) THEN <<silence>> ELSE <<>>)]
                /\ mi' = mi + 1
                /\ UNCHANGED <<pc, error, report, exit_status>>
    /\ UNCHANGED <<i, worker_returns, audio_files, artifacts, status,
                   attempt_count, failure, params, pause, merge_called>>
    /\ UNCHANGED cvars

\* the output is closed; main prints the duration and CONVERSION COMPLETE
MergeEnd ==
    /\ pc = "merging"
    /\ mi > Len(audio_files)
    /\ report' = "complete"
    /\ exit_status' = 0
    /\ pc' = "done"
    /\ UNCHANGED <<i, worker_returns, audio_files, artifacts, status,
                   attempt_count, failure, output, params, mi, pause,
                   merge_called, error>>
    /\ UNCHANGED cvars

Next ==
    \/ Dispatch
    \/ WorkerExitsZero
    \/ WorkerExitsNonZero
    \/ WorkerCannotStart
    \/ NoAudio
    \/ MergeBegin
    \/ MergeFile
    \/ MergeEnd

Spec == Init /\ [][Next]_vars

\* the interpreter keeps executing the program while it has a next step
FairSpec == Spec /\ WF_vars(Next)

\* ====================================================== properties
\* ---- helpers of the properties
RECURSIVE SumBytes(_)
SumBytes(blocks) ==
    IF blocks = <<>> THEN 0 ELSE Head(blocks).nbytes + SumBytes(Tail(blocks))

\* wave.getnframes() of the final file: data length over frame size
TotalFrameCount(out) ==
    SumBytes(out.blocks) \div (out.params.nchannels * out.params.sampwidth)

RECURSIVE SumFrames(_)
\* the frame counts f_1 + ... + f_k of the files merged
SumFrames(files) ==
    IF files = <<>> THEN 0
    ELSE artifacts[Head(files)].nframes + SumFrames(Tail(files))

\* the chunk numbers of the segment blocks of the final track, in file order
SegmentChunks(blocks) ==
    LET segs == SelectSeq(blocks, LAMBDA b : b.chunk > 0)
    IN  [k \in 1..Len(segs) |-> segs[k].chunk]

\* the chunk numbers that succeeded, ascending
RECURSIVE SucceededUpTo(_)
SucceededUpTo(k) ==
    IF k = 0 THEN <<>>
    ELSE SucceededUpTo(k - 1) \o (IF status[k] = "Succeeded" THEN <<k>> ELSE <<>>)

RunEnded == pc \in {"done", "crashed"}

Terminal == {"Succeeded", "FailedPermanent"}

\* round(a / b), halves to the even neighbour
RoundDiv(a, b) ==
    LET q == a \div b
        r == a % b
    IN  IF 2 * r > b \/ (2 * r = b /\ q % 2 = 1) THEN q + 1 ELSE q

\* the stripped, non-empty sentences of the text, in order
KeptSentences ==
    SelectSeq([k \in 1..Len(sentences) |-> Strip(sentences[k])],
              LAMBDA x : x # <<>>)

RECURSIVE Collapse(_)
\* every run of whitespace replaced by one space
Collapse(s) ==
    IF s = <<>> THEN <<>>
    ELSE IF IsSpace(Head(s))
         THEN <<" ">> \o Collapse(LStrip(s))
         ELSE <<Head(s)>> \o Collapse(Tail(s))

Normalize(s) == Collapse(Strip(s))

\* ---- C1
\* C1: the segments of the final track are in strictly increasing chunk
\* order at every moment of the merge, and a completed merge holds exactly
\* the chunks that succeeded, in chunk order.
C1_FinalTrackInChunkOrder ==
    LET sc == SegmentChunks(output.blocks)
    IN  /\ \A a, b \in 1..Len(sc) : a < b => sc[a] < sc[b]
        /\ (pc = "done" /\ report = "complete") => sc = SucceededUpTo(N)

\* a completed merge of chunks 1 and 3 with chunk 2 failed
C1_Witness ==
    /\ pc = "done"
    /\ report = "complete"
    /\ N = 3
    /\ status[2] = "FailedPermanent"
    /\ SegmentChunks(output.blocks) = <<1, 3>>

\* ---- C2
\* C2: a failed synthesis invocation of any kind never aborts the run: when
\* the run has ended, every chunk has been attempted and the merge stage was
\* reached (merge called, or nothing to merge).
C2_FailureNeverAborts ==
    RunEnded =>
        /\ \A j \in 1..N : attempt_count[j] >= 1
        /\ i > N

\* ---- C3
\* C3 (as stated, for any retry policy with max_attempts >= 2): a chunk is
\* finalized as failed only after a Permanent failure or after it has been
\* dispatched again.
C3_RetriedBeforeFailing ==
    \A j \in 1..N :
        status[j] = "FailedPermanent" =>
            failure[j] = "Permanent" \/ attempt_count[j] >= 2

\* C3 (amended): every chunk is dispatched at most once; a non-zero exit,
\* Transient or Permanent, finalizes it as failed after that one attempt;
\* the only transitions are Pending -> Dispatched -> Succeeded |
\* FailedPermanent, and a terminal status never changes.
C3_SingleAttempt ==
    /\ [](\A j \in 1..N :
            /\ attempt_count[j] <= 1
            /\ (status[j] = "Pending") = (attempt_count[j] = 0)
            /\ (status[j] = "FailedPermanent") = (failure[j] # "none"))
    /\ [][\A j \in 1..N :
            status'[j] # status[j] =>
                <<status[j], status'[j]>> \in
                    {<<"Pending", "Dispatched">>,
                     <<"Dispatched", "Succeeded">>,
                     <<"Dispatched", "FailedPermanent">>}]_vars

\* a chunk failed for a Transient cause after its single attempt, and the
\* loop went on to the next chunk
C3_Witness ==
    /\ N >= 2
    /\ status[1] = "FailedPermanent"
    /\ failure[1] = "Transient"
    /\ attempt_count[1] = 1
    /\ status[2] = "Succeeded"

\* ---- C4
\* C4: in every run every chunk eventually reaches a terminal outcome, also
\* when a synthesis invocation never returns on its own. Runs that an
\* uncaught exception ends (C2) are left aside, so that what is checked is
\* the bounded wait on the invocation.
C4_EveryChunkTerminates ==
    <>(pc = "crashed" \/ \A j \in 1..N : status[j] \in Terminal)

\* ---- C5
\* the shape of a completed merge of k files: segment, silence, segment, ...
MergeShape(silence_frames) ==
    LET k == Len(audio_files)
        framesize == params.nchannels * params.sampwidth
        blocks == output.blocks
    IN  /\ Len(blocks) = 2 * k - 1
        /\ \A m \in 1..k : blocks[2 * m - 1].chunk = audio_files[m]
        /\ \A m \in 1..(k - 1) :
              /\ blocks[2 * m].chunk = 0
              /\ blocks[2 * m].nbytes = silence_frames * framesize
        /\ TotalFrameCount(output) =
              SumFrames(audio_files) + (k - 1) * silence_frames

\* the files merged share the channel count and sample width of the first
SameFrameSize ==
    \A m \in 1..Len(audio_files) :
        /\ artifacts[audio_files[m]].params.nchannels = params.nchannels
        /\ artifacts[audio_files[m]].params.sampwidth = params.sampwidth

MergeCompleted == pc = "done" /\ report = "complete"

\* C5 (as stated): total_frame_count = sum(f_i) + (k-1) * round(r*p/1000),
\* one silence block of round(r*p/1000) frames after every segment but the
\* last.
C5_RoundedSilence ==
    (MergeCompleted /\ SameFrameSize) =>
        MergeShape(RoundDiv(params.framerate * pause, 1000))

\* C5 (amended): the same with floor(r*p/1000) frames of silence.
C5_TruncatedSilence ==
    (MergeCompleted /\ SameFrameSize) =>
        MergeShape((params.framerate * pause) \div 1000)

\* three chunks, the second failed, merged with a pause whose length in
\* frames is not an integer
C5_Witness ==
    /\ MergeCompleted
    /\ SameFrameSize
    /\ N = 3
    /\ audio_files = <<1, 3>>
    /\ (params.framerate * pause) % 1000 # 0

\* ---- C6
\* the files given to merge are all WAV files, and not all of one format
FormatMismatch ==
    /\ merge_called
    /\ \A m \in 1..Len(audio_files) : artifacts[audio_files[m]].kind = "wav"
    /\ \E m \in 1..Len(audio_files) :
          artifacts[audio_files[m]].params # artifacts[audio_files[1]].params

\* C6: a merge of segments whose formats differ fails with
\* FormatMismatchError and leaves no final output file.
C6_MismatchIsFatal ==
    (RunEnded /\ FormatMismatch) =>
        /\ error = "FormatMismatchError"
        /\ ~output.exists

\* ---- C7
\* C7 (as stated): with zero successful chunks merge fails with
\* EmptyMergeError, no final file is produced and the run does not end in
\* success.
C7_EmptyMergeError ==
    (RunEnded /\ i > N /\ audio_files = <<>>) =>
        /\ error = "EmptyMergeError"
        /\ ~output.exists
        /\ (exit_status # 0 \/ report # "complete")

\* C7 (amended): with zero successful chunks merge is never called and no
\* error is raised; no final file is produced, and a run whose loop finished
\* prints the no-audio report instead of the completion banner and exits
\* with status 0.
C7_NoAudioReport ==
    (RunEnded /\ audio_files = <<>>) =>
        /\ ~merge_called
        /\ ~output.exists
        /\ pc = "done" =>
              /\ error = "none"
              /\ report = "no_audio"
              /\ exit_status = 0

\* two chunks, both failed, and main returned
C7_Witness ==
    /\ pc = "done"
    /\ N = 2
    /\ audio_files = <<>>
    /\ \A j \in 1..N : status[j] = "FailedPermanent"

\* ---- C8
\* C8: every chunk is at most chunk_size characters long, unless it is one
\* sentence that is itself longer; every such sentence is a chunk of its
\* own, whole.
C8_ChunkSizeBound ==
    cpc = "done" =>
        /\ \A k \in 1..Len(chunks) :
              \/ Len(chunks[k]) <= chunk_size
              \/ /\ chunks[k] = heads[k]
                 /\ \E m \in 1..Len(KeptSentences) : KeptSentences[m] = chunks[k]
        /\ \A m \in 1..Len(KeptSentences) :
              Len(KeptSentences[m]) > chunk_size =>
                  \E k \in 1..Len(chunks) : chunks[k] = KeptSentences[m]

\* a chunk that fits, then an oversized sentence kept whole as the next one
C8_Witness ==
    /\ cpc = "done"
    /\ Len(chunks) = 2
    /\ Len(chunks[1]) <= chunk_size
    /\ Len(chunks[2]) > chunk_size
    /\ chunks[2] = KeptSentences[2]

\* ---- C9
\* C9: the chunks joined by single spaces reproduce the input text up to
\* whitespace, sentence-ending punctuation included; empty or
\* whitespace-only input gives no chunk.
C9_JoinReproducesText ==
    cpc = "done" =>
        /\ Normalize(Join(chunks)) = Normalize(text)
        /\ (Strip(text) = <<>> => chunks = <<>>)

\* ---- C10
\* C10: a chunk is closed exactly when the next sentence with its joining
\* space would not fit: consecutive chunks could not have been merged, a
\* chunk of several sentences fits, no chunk is empty, and sentences that
\* fit together give one chunk.
C10_ClosesExactlyOnOverflow ==
    cpc = "done" =>
        /\ \A k \in 1..(Len(chunks) - 1) :
              Len(chunks[k]) + 1 + Len(heads[k + 1]) > chunk_size
        /\ \A k \in 1..Len(chunks) :
              /\ chunks[k] # <<>>
              /\ chunks[k] # heads[k] => Len(chunks[k]) <= chunk_size
        /\ (KeptSentences # <<>> /\ Len(Join(KeptSentences)) <= chunk_size)
              => Len(chunks) = 1

\* two sentences in one chunk that they fill exactly, then a second chunk
C10_Witness ==
    /\ cpc = "done"
    /\ Len(chunks) = 2
    /\ chunks[1] # heads[1]
    /\ Len(chunks[1]) = chunk_size

====
